---------------------------- MODULE Spec2Model ----------------------------
(***************************************************************************)
(* A model of transcript.py: the profanity-list loader, the whole-word     *)
(* classifier, the fixed-window segmenter, the per-segment transcription   *)
(* loop, the CSV sink and main(), with the temporary files they create.    *)
(*                                                                         *)
(* Strings are sequences of one-character strings over Alphabet.  Times    *)
(* are integers in milliseconds.  Four specifications share the variables: *)
(*   Spec         one run of main()                                        *)
(*   SpecSplit    split_audio on a duration and a window size              *)
(*   SpecLexicon  load_profane_words_from_csv, then contains_profane_words *)
(*   SpecSave     repeated calls of save_to_csv on one list of records     *)
(***************************************************************************)
EXTENDS Integers, Sequences, FiniteSets, TLC

VARIABLES
    pc,               \* control position of the run (or of the harness)
    error,            \* the exception that ended the run, "none" if none
    video_exists,     \* os.path.exists(video_path)
    csv,              \* the profanity-list source at csv_path
    profane_words,    \* the set load_profane_words_from_csv returned
    load_status,      \* "none", "loaded", "not_found" (what it printed), "raised"
    temp_audio,       \* the top-level temporary audio file is on disk
    audio_len,        \* len(audio): duration of the stream in ms
    chunk_length_ms,  \* the window size split_audio is called with
    chunks,           \* the list split_audio returned: <<[start_ms, len]>>
    split_status,     \* "none", "returned", "raised"
    cur,              \* 1-based position of the for loop over chunks
    seg_temps,        \* per-segment temporary files on disk (by loop position)
    text,             \* the text handed to contains_profane_words
    label,            \* the label computed from it (-1 before)
    transcriptions,   \* the list of segment records
    disk,             \* destination path -> file content
    save_log,         \* what save_to_csv printed, one entry per call
    save_raised       \* an exception escaped save_to_csv

vars == <<pc, error, video_exists, csv, profane_words, load_status, temp_audio,
          audio_len, chunk_length_ms, chunks, split_status, cur, seg_temps,
          text, label, transcriptions, disk, save_log, save_raised>>

(***************************************************************************)
(* Bounds of the model.                                                    *)
(***************************************************************************)
MaxTextLen == 3
MaxTermLen == 2
MaxRows == 2
MaxAudioLen == 12
MaxWindow == 5
MaxChunks == 2
MaxRecords == 2
MaxSaves == 2

(***************************************************************************)
(* Characters and strings.                                                 *)
(***************************************************************************)
Alphabet == {"a", "b", "A", "!", " "}

\* \w of the re module, on the alphabet
WordChars == {"a", "b", "A"}

\* what str.strip() removes
Whitespace == {" "}

IsWord(c) == c \in WordChars

LowerChar(c) == IF c = "A" THEN "a" ELSE c

\* str.lower()
Lower(s) == [i \in 1..Len(s) |-> LowerChar(s[i])]

RECURSIVE LStrip(_)
LStrip(s) == IF s # << >> /\ Head(s) \in Whitespace THEN LStrip(Tail(s)) ELSE s

RECURSIVE RStrip(_)
RStrip(s) ==
    IF s # << >> /\ s[Len(s)] \in Whitespace
    THEN RStrip(SubSeq(s, 1, Len(s) - 1))
    ELSE s

\* str.strip()
Strip(s) == RStrip(LStrip(s))

RECURSIVE StringsUpTo(_)
StringsUpTo(n) ==
    IF n = 0 THEN {<< >>}
    ELSE LET shorter == StringsUpTo(n - 1)
         IN  shorter \cup {Append(s, c) : s \in {x \in shorter : Len(x) = n - 1},
                                          c \in Alphabet}


Texts == StringsUpTo(MaxTextLen)

RawTerms == StringsUpTo(MaxTermLen)

(***************************************************************************)
(* The profanity-list source.  csv.DictReader yields one dict per data    *)
(* row, keyed by the header's field names; a row with fewer fields than    *)
(* the header gets None for the missing ones, so the key is still there.   *)
(* A row is [has_value, value]: has_value is FALSE when the row has no     *)
(* field for the Profanity column, value is the raw field otherwise.       *)
(***************************************************************************)
ShortRow == [has_value |-> FALSE, value |-> << >>]

FullRow(v) == [has_value |-> TRUE, value |-> v]

MissingCsv == [exists |-> FALSE, has_col |-> FALSE, rows |-> << >>]

RECURSIVE SeqsUpTo(_, _)
SeqsUpTo(S, n) ==
    IF n = 0 THEN {<< >>}
    ELSE LET shorter == SeqsUpTo(S, n - 1)
         IN  shorter \cup {Append(s, x) : s \in {y \in shorter : Len(y) = n - 1},
                                          x \in S}

CsvRows == {ShortRow} \cup {FullRow(v) : v \in RawTerms}

CsvFiles ==
    {MissingCsv} \cup
    {[exists |-> TRUE, has_col |-> h, rows |-> r] :
        h \in BOOLEAN, r \in SeqsUpTo(CsvRows, MaxRows)}

\* 'Profanity' in row: the key is there whenever the header names the column
RowHasKey(file, row) == file.has_col

\* row['Profanity'].strip().lower()
NormalizeTerm(v) == Lower(Strip(v))

\* the for loop over the reader: None.strip() raises AttributeError
RECURSIVE LoadRows(_, _, _)
LoadRows(file, i, acc) ==
    IF i > Len(file.rows) THEN [status |-> "loaded", words |-> acc]
    ELSE LET row == file.rows[i]
         IN  IF RowHasKey(file, row)
             THEN IF row.has_value
                  THEN LoadRows(file, i + 1, acc \cup {NormalizeTerm(row.value)})
                  ELSE [status |-> "raised", words |-> {}]
             ELSE LoadRows(file, i + 1, acc)

\* the loader's result when csv_path does not exist
LoadMissing == [status |-> "not_found", words |-> {}]

load_profane_words_from_csv(file) ==
    IF file.exists THEN LoadRows(file, 1, {}) ELSE LoadMissing

(***************************************************************************)
(* The classifier: re.search(r'\b' + re.escape(word) + r'\b', text).       *)
(* Position p is between t[p] and t[p+1]; \b holds there when exactly one  *)
(* of the two is a word character (outside the string counts as none).     *)
(***************************************************************************)
WordBoundary(t, p) ==
    LET before == p >= 1 /\ IsWord(t[p])
        after == p < Len(t) /\ IsWord(t[p + 1])
    IN  before # after

re_search(word, t) ==
    \E p \in 0..(Len(t) - Len(word)) :
        /\ WordBoundary(t, p)
        /\ SubSeq(t, p + 1, p + Len(word)) = word
        /\ WordBoundary(t, p + Len(word))

\* an alternation of the terms between one pair of \b: matches the empty
\* alternative when the set is empty
ContainsJoinedPattern(t, words) ==
    IF words = {} THEN re_search(<< >>, Lower(t))
    ELSE \E word \in words : re_search(word, Lower(t))

contains_profane_words(t, words) ==
    \E word \in words : re_search(word, Lower(t))

\* label = 1 if contains_profane_words(text, profane_words) else 0
LabelOf(t, words) == IF contains_profane_words(t, words) THEN 1 ELSE 0

(***************************************************************************)
(* The segmenter.  range(0, len(audio), chunk_length_ms) raises ValueError *)
(* for a step of 0 and is empty for a negative step; audio[i:j] clamps     *)
(* both ends to len(audio).                                                *)
(***************************************************************************)
RECURSIVE RangeFrom(_, _, _)
RangeFrom(i, stop, step) ==
    IF (step > 0 /\ i < stop) \/ (step < 0 /\ i > stop)
    THEN <<i>> \o RangeFrom(i + step, stop, step)
    ELSE << >>

Min(a, b) == IF a <= b THEN a ELSE b

\* len(audio[i:j]) for 0 <= i <= j
UnclampedSliceLen(d, i, j) == j - i

SliceLen(d, i, j) == Min(j, d) - Min(i, d)

ChunkAt(d, w, i) == [start_ms |-> i, len |-> SliceLen(d, i, i + w)]

split_audio(d, w) ==
    IF w = 0 THEN [status |-> "raised", chunks |-> << >>]
    ELSE LET starts == RangeFrom(0, d, w)
         IN  [status |-> "returned",
              chunks |-> [k \in 1..Len(starts) |-> ChunkAt(d, w, starts[k])]]

(***************************************************************************)
(* Segment records.  The "segment" field is a string formatted with one    *)
(* decimal, "{start_ms / 1000:.1f}s - {(start_ms + len(chunk)) / 1000:.1f}s";*)
(* it is modelled as the pair of the two printed numbers in tenths of a    *)
(* second.  No modelled time is an exact tie (ms % 100 = 50).              *)
(***************************************************************************)
DefaultChunkLengthMs == 5000

\* f"{ms / 1000:.1f}" in tenths of a second
FormatTenths(ms) == (ms + 50) \div 100

SegmentOf(chunk) ==
    <<FormatTenths(chunk.start_ms), FormatTenths(chunk.start_ms + chunk.len)>>

RecordOf(chunk, t, words) ==
    [segment |-> SegmentOf(chunk), text |-> t, label |-> LabelOf(t, words)]

\* a list that puts the new record first
PrependRecord(list, rec) == <<rec>> \o list

\* transcriptions.append({...})
AppendRecord(list, rec) == Append(list, rec)

\* result['text'] of the engine, before .strip()
WhisperResults == {<< >>, <<" ">>, <<"a">>, <<" ", "A", "!">>, <<"b", "a">>}

\* durations of the extracted audio in a run of main
MainAudioLens ==
    {k * DefaultChunkLengthMs + r :
        k \in 0..(MaxChunks - 1), r \in {0, 1, DefaultChunkLengthMs - 1}}

\* profanity-list sources in a run of main
MainCsvFiles ==
    {MissingCsv,
     [exists |-> TRUE, has_col |-> FALSE, rows |-> <<FullRow(<<"a">>)>>],
     [exists |-> TRUE, has_col |-> TRUE, rows |-> << >>],
     [exists |-> TRUE, has_col |-> TRUE, rows |-> <<FullRow(<<" ", "A">>)>>],
     [exists |-> TRUE, has_col |-> TRUE, rows |-> <<FullRow(<<"b">>), ShortRow>>]}

(***************************************************************************)
(* The sink.  A destination is a path; the file system decides what        *)
(* happens there.  os.path.dirname of a bare file name is '', and          *)
(* os.makedirs('') raises FileNotFoundError.                               *)
(***************************************************************************)
Destinations ==
    {"output/report.csv", "readonly/report.csv", "report.csv", "full/report.csv"}

\* os.path.dirname(output_file)
DirName(dest) ==
    CASE dest = "output/report.csv" -> "output"
      [] dest = "readonly/report.csv" -> "readonly"
      [] dest = "full/report.csv" -> "full"
      [] OTHER -> ""

\* makedirs or open raises PermissionError there
PermissionDenied(dest) == DirName(dest) = "readonly"

\* a write to the open file raises OSError there (the device is full)
WriteFails(dest) == DirName(dest) = "full"

\* a destination at which directory creation, open and every write succeed
Writable(dest) == DirName(dest) = "output"

NoFile == [header |-> << >>, rows |-> << >>]

CsvHeader == <<"segment", "text", "label">>

FileOf(rows) == [header |-> CsvHeader, rows |-> rows]

\* the outcomes of save_to_csv that lets PermissionError escape
SaveOutcomesUncaught(rows, dest, old) ==
    IF PermissionDenied(dest)
    THEN {[printed |-> "none", raised |-> TRUE, file |-> old]}
    ELSE {[printed |-> "saved", raised |-> FALSE, file |-> FileOf(rows)]}

\* the outcomes of save_to_csv(rows, dest) when dest holds `old`:
\* what it printed, whether an exception escaped, the file afterwards
SaveOutcomes(rows, dest, old) ==
    IF DirName(dest) = ""
    THEN {[printed |-> "error", raised |-> FALSE, file |-> old]}
    ELSE IF PermissionDenied(dest)
    THEN {[printed |-> "permission_denied", raised |-> FALSE, file |-> old]}
    ELSE IF WriteFails(dest)
    THEN {[printed |-> "error", raised |-> FALSE, file |-> f] :
            f \in {NoFile} \cup {FileOf(SubSeq(rows, 1, n)) : n \in 0..Len(rows)}}
    ELSE {[printed |-> "saved", raised |-> FALSE, file |-> FileOf(rows)]}

\* a loop body that swallows the engine's failure and goes on
ContinueLoop(exc) == IF exc = "TranscriptionError" THEN "remove" ELSE "aborted"

\* no try/except in main or in the per-segment loop: an exception ends the run

Propagate(exc) == "aborted"

(***************************************************************************)
(* One run of main(video_path, output_csv, profanity_csv, language).       *)
(***************************************************************************)
Idle ==
    /\ error = "none"
    /\ profane_words = {}
    /\ load_status = "none"
    /\ temp_audio = FALSE
    /\ chunks = << >>
    /\ split_status = "none"
    /\ cur = 0
    /\ seg_temps = {}
    /\ label = -1
    /\ disk = [d \in Destinations |-> NoFile]
    /\ save_log = << >>
    /\ save_raised = FALSE

Init ==
    /\ Idle
    /\ pc = "main"
    /\ video_exists \in BOOLEAN
    /\ csv \in MainCsvFiles
    /\ text = << >>
    /\ audio_len = 0
    /\ chunk_length_ms = DefaultChunkLengthMs
    /\ transcriptions = << >>

Raise(exc) ==
    /\ error' = exc
    /\ pc' = Propagate(exc)

\* if not os.path.exists(video_path): raise FileNotFoundError
MainCheckVideo ==
    /\ pc = "main"
    /\ IF video_exists
       THEN pc' = "load" /\ error' = error
       ELSE Raise("FileNotFoundError")
    /\ UNCHANGED <<video_exists, csv, profane_words, load_status, temp_audio,
                   audio_len, chunk_length_ms, chunks, split_status, cur,
                   seg_temps, text, label, transcriptions, disk, save_log,
                   save_raised>>

\* profane_words = load_profane_words_from_csv(profanity_csv)
MainLoad ==
    /\ pc = "load"
    /\ LET res == load_profane_words_from_csv(csv)
       IN  /\ load_status' = res.status
           /\ profane_words' = res.words
           /\ IF res.status = "raised"
              THEN Raise("AttributeError")
              ELSE pc' = "mktemp" /\ error' = error
    /\ UNCHANGED <<video_exists, csv, temp_audio, audio_len, chunk_length_ms,
                   chunks, split_status, cur, seg_temps, text, label,
                   transcriptions, disk, save_log, save_raised>>

\* with tempfile.NamedTemporaryFile(suffix=".mp3", delete=False)
MainCreateTemp ==
    /\ pc = "mktemp"
    /\ temp_audio' = TRUE
    /\ pc' = "extract"
    /\ UNCHANGED <<error, video_exists, csv, profane_words, load_status,
                   audio_len, chunk_length_ms, chunks, split_status, cur,
                   seg_temps, text, label, transcriptions, disk, save_log,
                   save_raised>>

\* extract_audio_from_video: writes the audio, or the decoder raises
MainExtract ==
    /\ pc = "extract"
    /\ \/ /\ \E d \in MainAudioLens : audio_len' = d
          /\ pc' = "split"
          /\ error' = error
       \/ /\ Raise("MediaDecodeError")
          /\ audio_len' = audio_len
    /\ UNCHANGED <<video_exists, csv, profane_words, load_status, temp_audio,
                   chunk_length_ms, chunks, split_status, cur, seg_temps, text,
                   label, transcriptions, disk, save_log, save_raised>>

\* chunks = split_audio(temp_audio_file.name); AudioSegment.from_file may raise
MainSplit ==
    /\ pc = "split"
    /\ \/ LET res == split_audio(audio_len, chunk_length_ms)
          IN  /\ split_status' = res.status
              /\ chunks' = res.chunks
              /\ IF res.status = "raised"
                 THEN Raise("ValueError")
                 ELSE pc' = "loop" /\ error' = error
       \/ /\ Raise("CouldntDecodeError")
          /\ UNCHANGED <<split_status, chunks>>
    /\ UNCHANGED <<video_exists, csv, profane_words, load_status, temp_audio,
                   audio_len, chunk_length_ms, cur, seg_temps, text, label,
                   transcriptions, disk, save_log, save_raised>>

\* for start_ms, chunk in chunks: the next iteration creates its temporary
\* file (delete=False, closed at once); after the last one the list is returned
LoopNext ==
    /\ pc = "loop"
    /\ IF cur < Len(chunks)
       THEN /\ cur' = cur + 1
            /\ seg_temps' = seg_temps \cup {cur + 1}
            /\ pc' = "export"
       ELSE /\ pc' = "save"
            /\ UNCHANGED <<cur, seg_temps>>
    /\ UNCHANGED <<error, video_exists, csv, profane_words, load_status,
                   temp_audio, audio_len, chunk_length_ms, chunks, split_status,
                   text, label, transcriptions, disk, save_log, save_raised>>

\* chunk.export(temp_audio_path, format="mp3"): succeeds or raises
SegExport ==
    /\ pc = "export"
    /\ \/ pc' = "transcribe" /\ error' = error
       \/ Raise("ExportError")
    /\ UNCHANGED <<video_exists, csv, profane_words, load_status, temp_audio,
                   audio_len, chunk_length_ms, chunks, split_status, cur,
                   seg_temps, text, label, transcriptions, disk, save_log,
                   save_raised>>

\* whisper_model.transcribe(...), then strip, label and append; or it raises
SegTranscribe ==
    /\ pc = "transcribe"
    /\ \/ \E raw \in WhisperResults :
            LET rec == RecordOf(chunks[cur], Strip(raw), profane_words)
            IN  /\ text' = rec.text
                /\ label' = rec.label
                /\ transcriptions' = AppendRecord(transcriptions, rec)
                /\ pc' = "remove"
                /\ error' = error
       \/ /\ Raise("TranscriptionError")
          /\ UNCHANGED <<text, label, transcriptions>>
    /\ UNCHANGED <<video_exists, csv, profane_words, load_status, temp_audio,
                   audio_len, chunk_length_ms, chunks, split_status, cur,
                   seg_temps, disk, save_log, save_raised>>

\* os.remove(temp_audio_path)
SegRemove ==
    /\ pc = "remove"
    /\ seg_temps' = seg_temps \ {cur}
    /\ pc' = "loop"
    /\ UNCHANGED <<error, video_exists, csv, profane_words, load_status,
                   temp_audio, audio_len, chunk_length_ms, chunks, split_status,
                   cur, text, label, transcriptions, disk, save_log,
                   save_raised>>

\* save_to_csv(transcriptions, dest): one call, whatever the destination
SaveCall(dest) ==
    \E o \in SaveOutcomes(transcriptions, dest, disk[dest]) :
        /\ disk' = [disk EXCEPT ![dest] = o.file]
        /\ save_log' = Append(save_log, [dest |-> dest, printed |-> o.printed])
        /\ save_raised' = o.raised

\* save_to_csv(results, output_csv), then the with block ends: the file
\* object is closed, and delete=False leaves the file where it is
MainSave ==
    /\ pc = "save"
    /\ \E dest \in Destinations : SaveCall(dest)
    /\ pc' = "done"
    /\ UNCHANGED <<error, video_exists, csv, profane_words, load_status,
                   temp_audio, audio_len, chunk_length_ms, chunks, split_status,
                   cur, seg_temps, text, label, transcriptions>>

Next ==
    \/ MainCheckVideo
    \/ MainLoad
    \/ MainCreateTemp
    \/ MainExtract
    \/ MainSplit
    \/ LoopNext
    \/ SegExport
    \/ SegTranscribe
    \/ SegRemove
    \/ MainSave

Spec == Init /\ [][Next]_vars

(***************************************************************************)
(* split_audio alone, on every duration and window size of the bounds.     *)
(***************************************************************************)
InitSplit ==
    /\ Idle
    /\ pc = "split_call"
    /\ video_exists = TRUE
    /\ csv = MissingCsv
    /\ text = << >>
    /\ audio_len \in 0..MaxAudioLen
    /\ chunk_length_ms \in (0 - MaxWindow)..MaxWindow
    /\ transcriptions = << >>

SplitCall ==
    /\ pc = "split_call"
    /\ LET res == split_audio(audio_len, chunk_length_ms)
       IN  /\ split_status' = res.status
           /\ chunks' = res.chunks
           /\ error' = IF res.status = "raised" THEN "ValueError" ELSE error
    /\ pc' = "split_done"
    /\ UNCHANGED <<video_exists, csv, profane_words, load_status, temp_audio,
                   audio_len, chunk_length_ms, cur, seg_temps, text, label,
                   transcriptions, disk, save_log, save_raised>>

NextSplit == SplitCall

SpecSplit == InitSplit /\ [][NextSplit]_vars

(***************************************************************************)
(* The loader, then the classifier, on every source and text of the bounds.*)
(***************************************************************************)
InitLexicon ==
    /\ Idle
    /\ pc = "lex_load"
    /\ video_exists = TRUE
    /\ csv \in CsvFiles
    /\ text \in Texts
    /\ audio_len = 0
    /\ chunk_length_ms = DefaultChunkLengthMs
    /\ transcriptions = << >>

LexLoad ==
    /\ pc = "lex_load"
    /\ LET res == load_profane_words_from_csv(csv)
       IN  /\ load_status' = res.status
           /\ profane_words' = res.words
           /\ IF res.status = "raised"
              THEN error' = "AttributeError" /\ pc' = "lex_raised"
              ELSE error' = error /\ pc' = "lex_classify"
    /\ UNCHANGED <<video_exists, csv, temp_audio, audio_len, chunk_length_ms,
                   chunks, split_status, cur, seg_temps, text, label,
                   transcriptions, disk, save_log, save_raised>>

LexClassify ==
    /\ pc = "lex_classify"
    /\ label' = LabelOf(text, profane_words)
    /\ pc' = "lex_done"
    /\ UNCHANGED <<error, video_exists, csv, profane_words, load_status,
                   temp_audio, audio_len, chunk_length_ms, chunks, split_status,
                   cur, seg_temps, text, transcriptions, disk, save_log,
                   save_raised>>

NextLexicon == LexLoad \/ LexClassify

SpecLexicon == InitLexicon /\ [][NextLexicon]_vars

(***************************************************************************)
(* save_to_csv called again and again by a caller that keeps the list.     *)
(***************************************************************************)
\* texts after .strip()
ReportTexts == {<< >>, <<"a">>}

ReportAudioLens ==
    {k * DefaultChunkLengthMs + r :
        k \in 0..(MaxRecords - 1), r \in {0, 1, DefaultChunkLengthMs - 1}}

\* the lists transcribe_and_label_chunks can return
Reports ==
    UNION {LET chs == split_audio(d, DefaultChunkLengthMs).chunks
           IN  {[i \in 1..Len(chs) |->
                    [segment |-> SegmentOf(chs[i]), text |-> f[i][1],
                     label |-> f[i][2]]] :
                  f \in [1..Len(chs) -> ReportTexts \X {0, 1}]} :
           d \in ReportAudioLens}

InitSave ==
    /\ Idle
    /\ pc = "save_call"
    /\ video_exists = TRUE
    /\ csv = MissingCsv
    /\ text = << >>
    /\ audio_len = 0
    /\ chunk_length_ms = DefaultChunkLengthMs
    /\ transcriptions \in Reports

SaveAgain ==
    /\ pc = "save_call"
    /\ Len(save_log) < MaxSaves
    /\ \E dest \in Destinations : SaveCall(dest)
    /\ pc' = IF save_raised' THEN "aborted" ELSE "save_call"
    /\ UNCHANGED <<error, video_exists, csv, profane_words, load_status,
                   temp_audio, audio_len, chunk_length_ms, chunks, split_status,
                   cur, seg_temps, text, label, transcriptions>>

NextSave == SaveAgain

SpecSave == InitSave /\ [][NextSave]_vars

(***************************************************************************)
(* Properties.                                                             *)
(***************************************************************************)

\* C1: for a window w > 0 and a duration d, split_audio returns ceil(d/w)
\* segments in ascending order, segment k starting at k*w, all but the last
\* of length w, none empty, each ending where the next starts, the first
\* starting at 0 and the last ending at d.
C1_SplitPartitions ==
    (pc = "split_done" /\ chunk_length_ms > 0) =>
        LET w == chunk_length_ms
            d == audio_len
            n == Len(chunks)
        IN  /\ split_status = "returned"
            /\ n = (d + w - 1) \div w
            /\ \A k \in 1..n : chunks[k].start_ms = (k - 1) * w
            /\ \A k \in 1..n : chunks[k].len >= 1 /\ chunks[k].len <= w
            /\ \A k \in 1..(n - 1) : chunks[k].len = w
            /\ \A k \in 1..(n - 1) :
                 chunks[k].start_ms + chunks[k].len = chunks[k + 1].start_ms
            /\ n >= 1 => /\ chunks[1].start_ms = 0
                         /\ chunks[n].start_ms + chunks[n].len = d

\* a duration of 12 and a window of 5 gave [0,5), [5,10), [10,12)
C1_Witness ==
    /\ pc = "split_done"
    /\ audio_len = 12
    /\ chunk_length_ms = 5
    /\ chunks = <<[start_ms |-> 0, len |-> 5], [start_ms |-> 5, len |-> 5],
                  [start_ms |-> 10, len |-> 2]>>

\* the maximal runs of word characters of t
WholeWords(t) ==
    {SubSeq(t, i, j) : i \in 1..Len(t), j \in 1..Len(t)} \cap
    {u \in Texts :
        /\ u # << >>
        /\ \A k \in 1..Len(u) : IsWord(u[k])
        /\ \E i \in 1..(Len(t) - Len(u) + 1) :
             /\ SubSeq(t, i, i + Len(u) - 1) = u
             /\ (i = 1 \/ ~IsWord(t[i - 1]))
             /\ (i + Len(u) - 1 = Len(t) \/ ~IsWord(t[i + Len(u)]))}

\* C2: for every text and every lexicon the loader can produce, the label
\* is 1 if and only if some whole word of the text, compared
\* case-insensitively, equals some term of the lexicon.
C2_LabelIffWholeWord ==
    pc = "lex_done" =>
        (label = 1 <=> \E u \in WholeWords(Lower(text)) : u \in profane_words)

\* C3: when the run of main has ended, on whatever path, the top-level
\* temporary audio file is gone.
C3_TempAudioRemoved == pc \in {"done", "aborted"} => ~temp_audio

\* C4: at most one per-segment temporary file exists at any time, and none
\* exists when the next segment is about to start or the function has
\* returned or aborted, whether export and transcription succeeded or raised.
C4_SegTempScoped ==
    /\ Cardinality(seg_temps) <= 1
    /\ pc \in {"loop", "save", "done", "aborted"} => seg_temps = {}

\* the terms of the rows that have a value for the Profanity column
ExpectedWords(file) ==
    {NormalizeTerm(file.rows[i].value) :
        i \in {j \in 1..Len(file.rows) : file.has_col /\ file.rows[j].has_value}}

\* C5: for an existing source the loader returns normally, whatever the
\* rows: rows without a value for the Profanity column are skipped, every
\* other row contributes its trimmed, lowercased term.
C5_LoadSkipsMalformedRows ==
    (pc \in {"lex_classify", "lex_done", "lex_raised"} /\ csv.exists) =>
        /\ load_status = "loaded"
        /\ profane_words = ExpectedWords(csv)

C7_NonPositiveWindowFails ==
    (pc = "split_done" /\ chunk_length_ms <= 0) => split_status = "raised"

\* the number of segments whose record has been appended
Processed == IF pc \in {"export", "transcribe"} THEN cur - 1 ELSE cur

\* C8: the list holds one record per segment processed so far, in processing
\* order, with strictly increasing start_ms; a segment is transcribed only
\* after the record of the one before it was appended; the rows written by
\* save_to_csv are in that order.
C8_RecordsInProcessingOrder ==
    /\ cur <= Len(chunks)
    /\ pc \in {"loop", "export", "transcribe", "remove", "save", "done"} =>
         Len(transcriptions) = Processed
    /\ pc \in {"save", "done"} => Len(transcriptions) = Len(chunks)
    /\ Len(transcriptions) <= Len(chunks)
    /\ \A i \in 1..Len(transcriptions) :
         transcriptions[i].segment = SegmentOf(chunks[i])
    /\ \A i \in 1..Len(transcriptions) : \A j \in 1..Len(transcriptions) :
         i < j => /\ chunks[i].start_ms < chunks[j].start_ms
                  /\ transcriptions[i].segment[1] < transcriptions[j].segment[1]
    /\ \A dest \in Destinations :
         disk[dest] # NoFile =>
            /\ Len(disk[dest].rows) <= Len(transcriptions)
            /\ disk[dest].rows = SubSeq(transcriptions, 1, Len(disk[dest].rows))
    /\ \A i \in 1..Len(save_log) :
         save_log[i].printed = "saved" => disk[save_log[i].dest].rows = transcriptions

\* a run of two segments with different texts, saved
C8_Witness ==
    /\ pc = "done"
    /\ Len(transcriptions) = 2
    /\ transcriptions[1].text # transcriptions[2].text
    /\ save_log[1].printed = "saved"
    /\ disk[save_log[1].dest] = FileOf(transcriptions)

\* C9: once the transcription of a segment has failed the run is aborted
\* with the segments before it as the only ones transcribed, save_to_csv
\* has not been called and no file holds a report; a report is written
\* only when every segment has its record.
C9_TranscriptionFailureAborts ==
    /\ error = "TranscriptionError" =>
         /\ pc = "aborted"
         /\ Len(transcriptions) = cur - 1
         /\ save_log = << >>
         /\ \A dest \in Destinations : disk[dest] = NoFile
    /\ (save_log # << >> \/ \E dest \in Destinations : disk[dest] # NoFile) =>
         /\ error = "none"
         /\ pc = "done"
         /\ Len(transcriptions) = Len(chunks)

\* the second of two segments failed: one record exists and nothing is written
C9_Witness ==
    /\ error = "TranscriptionError"
    /\ Len(chunks) = 2
    /\ Len(transcriptions) = 1
    /\ pc = "aborted"

\* C10: when the profanity-list path does not exist the loader returns the
\* empty lexicon and only reports it, the run goes on, and every record of
\* the run has label 0 whatever its text.
C10_MissingListLabelsZero ==
    (~csv.exists /\ pc \notin {"main", "load"} /\ video_exists) =>
        /\ load_status = "not_found"
        /\ profane_words = {}
        /\ error # "AttributeError"
        /\ pc = "aborted" => temp_audio
        /\ \A i \in 1..Len(transcriptions) : transcriptions[i].label = 0

\* a finished run without a list whose two records carry words
C10_Witness ==
    /\ ~csv.exists
    /\ pc = "done"
    /\ Len(transcriptions) = 2
    /\ transcriptions[1].text = <<"a">>
    /\ transcriptions[2].text = <<"b", "a">>
    /\ transcriptions[1].label = 0

=============================================================================
